---------------------------- MODULE Spec2Model ----------------------------
(***************************************************************************)
(* Model of the feature-engineering aggregation                            *)
(* (src/src/feature_engineering.py) and of the simulated feature-store     *)
(* retrieval functions (src/src/feature_store_ops.py).                     *)
(*                                                                         *)
(* A Python dict is a TLA+ function whose DOMAIN is the dict's key set, a  *)
(* list is a sequence, a DataFrame is the sequence of its rows, each row a *)
(* function from column name to value.                                     *)
(***************************************************************************)
EXTENDS Integers, Sequences, FiniteSets

VARIABLES
    pc,               \* position of the running call: "idle", a step of engineer_user_activity_features, "done"
    op,               \* name of the function that was called
    raw_data,         \* the dict passed as raw_data
    total_activities, \* local of engineer_user_activity_features (line 137)
    unique_products,  \* local of engineer_user_activity_features (line 138)
    purchase_counts,  \* local of engineer_user_activity_features (line 139)
    result,           \* the value returned (DataFrame rows, or a helper's dict)
    error,            \* "none", or the message of the ValueError raised
    calls,            \* the helpers entered so far by the running call, in order
    entities,         \* entity_df / entity_rows passed to a retrieval function
    features,         \* features argument passed to a retrieval function
    saved,            \* (batch, outcome) of one earlier engineer call, kept by the caller
    ncalls            \* number of calls completed by the caller

vars == <<pc, op, raw_data, total_activities, unique_products, purchase_counts,
          result, error, calls, entities, features, saved, ncalls>>

(***************************************************************************)
(* Bounds of the model.                                                    *)
(***************************************************************************)
MaxLen == 3        \* longest well-formed batch
ShapeLen == 2      \* longest batch from which ill-formed batches are derived
PureLen == 2       \* longest batch drawn when calls are repeated
MaxCalls == 3      \* number of successive calls when calls are repeated
MaxEntities == 2   \* longest entity list given to a retrieval function
MaxFeatures == 2   \* longest feature-name list given to a retrieval function

Users == {1, 2}
ActivityTypes == {"view", "click", "purchase"}
Timestamps == {1704067200}
Products == {"A", "B"}

(***************************************************************************)
(* dict and list primitives                                                *)
(***************************************************************************)
EmptyDict == <<>>

Get(d, k, default) == IF k \in DOMAIN d THEN d[k] ELSE default

Put(d, k, v) == [x \in (DOMAIN d) \cup {k} |-> IF x = k THEN v ELSE d[x]]

\* set(seq)
SetOf(seq) == {seq[i] : i \in 1..Len(seq)}

\* sorted(S) for a set S of integers
RECURSIVE sorted(_)
sorted(S) ==
    IF S = {} THEN <<>>
    ELSE LET m == CHOOSE x \in S : \A y \in S : x <= y
         IN  <<m>> \o sorted(S \ {m})

(***************************************************************************)
(* Batches handed to the functions.                                        *)
(***************************************************************************)
required_keys == <<"user_id", "activity_type", "timestamp", "product_id">>

KeyNames == SetOf(required_keys)

Records == [user_id : Users, activity_type : ActivityTypes,
            timestamp : Timestamps, product_id : Products]

\* the columnar dict of a sequence of records
Columns(recs) == [k \in KeyNames |-> [i \in 1..Len(recs) |-> recs[i][k]]]

\* the records drawn when calls are repeated
PureRecords == [user_id : Users, activity_type : {"view", "purchase"},
                timestamp : Timestamps, product_id : {"A"}]

WellFormedBatches(R, n) ==
    {Columns(recs) : recs \in UNION {[1..m -> R] : m \in 0..n}}

DropKey(b, k) == [x \in (DOMAIN b) \ {k} |-> b[x]]

Truncate(b, k) ==
    [x \in DOMAIN b |-> IF x = k THEN SubSeq(b[x], 1, Len(b[x]) - 1) ELSE b[x]]

\* a key missing, or one column one element short
IllFormedBatches(R, n) ==
    {EmptyDict}
    \cup {DropKey(b, k) : b \in WellFormedBatches(R, n), k \in KeyNames}
    \cup {Truncate(b, k) :
            b \in {c \in WellFormedBatches(R, n) : Len(c["user_id"]) >= 1},
            k \in KeyNames}

Batches == WellFormedBatches(Records, MaxLen) \cup IllFormedBatches(Records, ShapeLen)

PureBatches ==
    WellFormedBatches(PureRecords, PureLen) \cup IllFormedBatches(PureRecords, PureLen)

(***************************************************************************)
(* calculate_total_activities                                              *)
(***************************************************************************)
RECURSIVE TotalLoop(_, _, _)
TotalLoop(users, i, activity_counts) ==
    IF i > Len(users) THEN activity_counts
    ELSE TotalLoop(users, i + 1,
                   Put(activity_counts, users[i],
                       Get(activity_counts, users[i], 0) + 1))

\* lines 21-22: the only validation the helper performs
TotalError(raw) ==
    IF raw = EmptyDict \/ "user_id" \notin DOMAIN raw
    THEN "raw_data must contain 'user_id' key"
    ELSE "none"

\* variant: the loop starts at the second record
calculate_total_activities_skip_first(raw) == TotalLoop(raw["user_id"], 2, EmptyDict)

calculate_total_activities(raw) == TotalLoop(raw["user_id"], 1, EmptyDict)

(***************************************************************************)
(* calculate_unique_products_viewed                                        *)
(***************************************************************************)
\* zip(...) stops at the shortest of its arguments
ZipLen(raw, keys) ==
    LET lens == {Len(raw[k]) : k \in keys}
    IN  CHOOSE n \in lens : \A m \in lens : n <= m

RECURSIVE UniqueLoop(_, _, _, _)
UniqueLoop(raw, n, i, user_products) ==
    IF i > n THEN user_products
    ELSE LET user_id == raw["user_id"][i]
             activity_type == raw["activity_type"][i]
             product_id == raw["product_id"][i]
         IN  UniqueLoop(raw, n, i + 1,
                 IF activity_type = "view"
                 THEN Put(user_products, user_id,
                          Get(user_products, user_id, {}) \cup {product_id})
                 ELSE user_products)

\* first key of keys (a sequence) missing from raw, as the for loop finds it
RECURSIVE FirstMissing(_, _, _)
FirstMissing(raw, keys, i) ==
    IF i > Len(keys) THEN "none"
    ELSE IF keys[i] \notin DOMAIN raw THEN keys[i]
    ELSE FirstMissing(raw, keys, i + 1)

UniqueError(raw) ==
    LET k == FirstMissing(raw, <<"user_id", "activity_type", "product_id">>, 1)
    IN  IF k = "none" THEN "none" ELSE "raw_data must contain '" \o k \o "' key"

\* variant: the products are collected in a list, so repeats are counted
calculate_unique_products_viewed_list(raw) ==
    LET n == ZipLen(raw, {"user_id", "activity_type", "product_id"})
        views(u) == {i \in 1..n : raw["user_id"][i] = u /\ raw["activity_type"][i] = "view"}
    IN  [u \in {raw["user_id"][i] : i \in {j \in 1..n : raw["activity_type"][j] = "view"}}
            |-> Cardinality(views(u))]

calculate_unique_products_viewed(raw) ==
    LET n == ZipLen(raw, {"user_id", "activity_type", "product_id"})
        user_products == UniqueLoop(raw, n, 1, EmptyDict)
    IN  [u \in DOMAIN user_products |-> Cardinality(user_products[u])]

(***************************************************************************)
(* calculate_purchase_count                                                *)
(***************************************************************************)
RECURSIVE PurchaseLoop(_, _, _, _)
PurchaseLoop(raw, n, i, counts) ==
    IF i > n THEN counts
    ELSE LET user_id == raw["user_id"][i]
             activity_type == raw["activity_type"][i]
         IN  PurchaseLoop(raw, n, i + 1,
                 IF activity_type = "purchase"
                 THEN Put(counts, user_id, Get(counts, user_id, 0) + 1)
                 ELSE counts)

PurchaseError(raw) ==
    LET k == FirstMissing(raw, <<"user_id", "activity_type">>, 1)
    IN  IF k = "none" THEN "none" ELSE "raw_data must contain '" \o k \o "' key"

\* variant: every record that is not a view is counted
calculate_purchase_count_non_view(raw) ==
    LET n == ZipLen(raw, {"user_id", "activity_type"})
        hits(u) == {i \in 1..n : raw["user_id"][i] = u /\ raw["activity_type"][i] # "view"}
    IN  [u \in {raw["user_id"][i] : i \in {j \in 1..n : raw["activity_type"][j] # "view"}}
            |-> Cardinality(hits(u))]

calculate_purchase_count(raw) ==
    PurchaseLoop(raw, ZipLen(raw, {"user_id", "activity_type"}), 1, EmptyDict)

(***************************************************************************)
(* engineer_user_activity_features                                         *)
(***************************************************************************)
\* lines 126-129
KeysError(raw) ==
    LET k == FirstMissing(raw, required_keys, 1)
    IN  IF k = "none" THEN "none" ELSE "Missing required key: " \o k

\* variant: only the first two columns are compared
LengthsError_first_two(raw) ==
    IF Len(raw[required_keys[1]]) # Len(raw[required_keys[2]])
    THEN "All data arrays must have the same length"
    ELSE "none"

\* lines 132-134
LengthsError(raw) ==
    LET lengths == [i \in 1..Len(required_keys) |-> Len(raw[required_keys[i]])]
    IN  IF Cardinality(SetOf(lengths)) > 1
        THEN "All data arrays must have the same length"
        ELSE "none"

\* variant: the users are taken from the keys of the views dict
unique_users_viewers(raw) == sorted(DOMAIN calculate_unique_products_viewed(raw))

\* variant: sorted(..., reverse=True)
unique_users_descending(raw) ==
    LET up == sorted(SetOf(raw["user_id"]))
    IN  [i \in 1..Len(up) |-> up[Len(up) + 1 - i]]

\* variant: the distinct users in order of first occurrence, not sorted
RECURSIVE FirstSeen(_, _, _)
FirstSeen(users, i, acc) ==
    IF i > Len(users) THEN acc
    ELSE FirstSeen(users, i + 1,
                   IF users[i] \in SetOf(acc) THEN acc ELSE Append(acc, users[i]))

unique_users_first_seen(raw) == FirstSeen(raw["user_id"], 1, <<>>)

\* line 142
unique_users(raw) == sorted(SetOf(raw["user_id"]))

\* lines 145-152: the DataFrame built from the features dict, as its rows
DataFrame(users, total, unique, purchases) ==
    [i \in 1..Len(users) |->
        [user_id                |-> users[i],
         total_activities       |-> Get(total, users[i], 0),
         unique_products_viewed |-> Get(unique, users[i], 0),
         purchase_count         |-> Get(purchases, users[i], 0)]]

\* the whole call, as a function of its argument
engineer_user_activity_features(raw) ==
    IF KeysError(raw) # "none" THEN [error |-> KeysError(raw), rows |-> <<>>]
    ELSE IF LengthsError(raw) # "none" THEN [error |-> LengthsError(raw), rows |-> <<>>]
    ELSE [error |-> "none",
          rows  |-> DataFrame(unique_users(raw),
                              calculate_total_activities(raw),
                              calculate_unique_products_viewed(raw),
                              calculate_purchase_count(raw))]

(***************************************************************************)
(* State machine                                                           *)
(***************************************************************************)
Init ==
    /\ pc = "idle"
    /\ op = "none"
    /\ raw_data = EmptyDict
    /\ total_activities = EmptyDict
    /\ unique_products = EmptyDict
    /\ purchase_counts = EmptyDict
    /\ result = <<>>
    /\ error = "none"
    /\ calls = <<>>
    /\ entities = <<>>
    /\ features = [is_none |-> TRUE, names |-> <<>>]
    /\ saved = [set |-> FALSE, batch |-> EmptyDict, error |-> "none", rows |-> <<>>]
    /\ ncalls = 0

\* the caller invokes engineer_user_activity_features(b)
Call(b) ==
    /\ pc = "idle"
    /\ pc' = "keys"
    /\ op' = "engineer_user_activity_features"
    /\ raw_data' = b
    /\ result' = <<>>
    /\ error' = "none"
    /\ calls' = <<>>
    /\ UNCHANGED <<total_activities, unique_products, purchase_counts,
                   entities, features, saved, ncalls>>

\* lines 126-129
ValidateKeys ==
    /\ pc = "keys"
    /\ error' = KeysError(raw_data)
    /\ pc' = IF KeysError(raw_data) # "none" THEN "done" ELSE "lengths"
    /\ UNCHANGED <<op, raw_data, total_activities, unique_products,
                   purchase_counts, result, calls, entities, features, saved, ncalls>>

\* lines 132-134
ValidateLengths ==
    /\ pc = "lengths"
    /\ error' = LengthsError(raw_data)
    /\ pc' = IF LengthsError(raw_data) # "none" THEN "done" ELSE "total"
    /\ UNCHANGED <<op, raw_data, total_activities, unique_products,
                   purchase_counts, result, calls, entities, features, saved, ncalls>>

\* line 137
CalcTotal ==
    /\ pc = "total"
    /\ calls' = Append(calls, "calculate_total_activities")
    /\ error' = TotalError(raw_data)
    /\ IF TotalError(raw_data) # "none"
       THEN pc' = "done" /\ UNCHANGED total_activities
       ELSE pc' = "unique" /\ total_activities' = calculate_total_activities(raw_data)
    /\ UNCHANGED <<op, raw_data, unique_products, purchase_counts, result,
                   entities, features, saved, ncalls>>

\* line 138
CalcUnique ==
    /\ pc = "unique"
    /\ calls' = Append(calls, "calculate_unique_products_viewed")
    /\ error' = UniqueError(raw_data)
    /\ IF UniqueError(raw_data) # "none"
       THEN pc' = "done" /\ UNCHANGED unique_products
       ELSE pc' = "purchase" /\ unique_products' = calculate_unique_products_viewed(raw_data)
    /\ UNCHANGED <<op, raw_data, total_activities, purchase_counts, result,
                   entities, features, saved, ncalls>>

\* line 139
CalcPurchase ==
    /\ pc = "purchase"
    /\ calls' = Append(calls, "calculate_purchase_count")
    /\ error' = PurchaseError(raw_data)
    /\ IF PurchaseError(raw_data) # "none"
       THEN pc' = "done" /\ UNCHANGED purchase_counts
       ELSE pc' = "build" /\ purchase_counts' = calculate_purchase_count(raw_data)
    /\ UNCHANGED <<op, raw_data, total_activities, unique_products, result,
                   entities, features, saved, ncalls>>

\* variant: the sorted distinct users are written back into the caller's batch
Build_in_place ==
    /\ pc = "build"
    /\ raw_data' = Put(raw_data, "user_id", sorted(SetOf(raw_data["user_id"])))
    /\ result' = DataFrame(raw_data'["user_id"], total_activities,
                           unique_products, purchase_counts)
    /\ pc' = "done"
    /\ UNCHANGED <<op, total_activities, unique_products,
                   purchase_counts, error, calls, entities, features, saved, ncalls>>

\* lines 142-152
Build ==
    /\ pc = "build"
    /\ result' = DataFrame(unique_users(raw_data), total_activities,
                           unique_products, purchase_counts)
    /\ pc' = "done"
    /\ UNCHANGED <<op, raw_data, total_activities, unique_products,
                   purchase_counts, error, calls, entities, features, saved, ncalls>>

(***************************************************************************)
(* The helpers called directly by a caller.                                *)
(***************************************************************************)
Direct(name, b, err, value) ==
    /\ pc = "idle"
    /\ pc' = "done"
    /\ op' = name
    /\ raw_data' = b
    /\ calls' = <<name>>
    /\ error' = err
    /\ result' = IF err # "none" THEN <<>> ELSE value
    /\ UNCHANGED <<total_activities, unique_products, purchase_counts,
                   entities, features, saved, ncalls>>

DirectTotal(b) ==
    Direct("calculate_total_activities", b, TotalError(b),
           IF TotalError(b) # "none" THEN <<>> ELSE calculate_total_activities(b))

DirectUnique(b) ==
    Direct("calculate_unique_products_viewed", b, UniqueError(b),
           IF UniqueError(b) # "none" THEN <<>> ELSE calculate_unique_products_viewed(b))

DirectPurchase(b) ==
    Direct("calculate_purchase_count", b, PurchaseError(b),
           IF PurchaseError(b) # "none" THEN <<>> ELSE calculate_purchase_count(b))

(***************************************************************************)
(* simulate_historical_features and simulate_online_features               *)
(***************************************************************************)
\* lines 109-110 and 156-157
DefaultFeatures == <<"total_activities", "unique_products_viewed", "purchase_count">>

EffectiveFeatures(f) == IF f.is_none THEN DefaultFeatures ELSE f.names

\* the if/elif chain of lines 119-124 and 169-174: a dict with the column
\* added, or the dict as it was when no branch matches the name
SetFeature(row, feature) ==
    IF feature = "total_activities" THEN Put(row, feature, row["user_id"] * 10)
    ELSE IF feature = "unique_products_viewed" THEN Put(row, feature, row["user_id"] * 5)
    ELSE IF feature = "purchase_count" THEN Put(row, feature, row["user_id"] * 2)
    ELSE row

\* lines 118-124: one column assignment per requested feature
RECURSIVE HistoricalLoop(_, _, _)
HistoricalLoop(result_df, feats, i) ==
    IF i > Len(feats) THEN result_df
    ELSE HistoricalLoop([r \in 1..Len(result_df) |-> SetFeature(result_df[r], feats[i])],
                        feats, i + 1)

simulate_historical_features(entity_df, f) ==
    HistoricalLoop(entity_df, EffectiveFeatures(f), 1)

\* lines 168-174: the inner loop over the features of one entity row
RECURSIVE OnlineRow(_, _, _)
OnlineRow(feature_dict, feats, i) ==
    IF i > Len(feats) THEN feature_dict
    ELSE OnlineRow(SetFeature(feature_dict, feats[i]), feats, i + 1)

\* lines 162-178
simulate_online_features(entity_rows, f) ==
    [r \in 1..Len(entity_rows) |->
        OnlineRow([user_id |-> entity_rows[r]["user_id"]], EffectiveFeatures(f), 1)]

\* inputs of the retrieval functions
RequestNames == {"total_activities", "unique_products_viewed", "purchase_count",
                 "avg_session_length"}

EntityIds == UNION {[1..n -> Users] : n \in 0..MaxEntities}

FeatureArgs ==
    {[is_none |-> TRUE, names |-> <<>>]}
    \cup {[is_none |-> FALSE, names |-> s] :
            s \in UNION {[1..n -> RequestNames] : n \in 0..MaxFeatures}}

EntityDf(ids) ==
    [i \in 1..Len(ids) |-> [user_id |-> ids[i], event_timestamp |-> "2024-01-01"]]

EntityRows(ids) == [i \in 1..Len(ids) |-> [user_id |-> ids[i]]]

SimHistorical(ids, f) ==
    /\ pc = "idle"
    /\ pc' = "done"
    /\ op' = "simulate_historical_features"
    /\ entities' = EntityDf(ids)
    /\ features' = f
    /\ result' = simulate_historical_features(EntityDf(ids), f)
    /\ UNCHANGED <<raw_data, total_activities, unique_products, purchase_counts,
                   error, calls, saved, ncalls>>

SimOnline(ids, f) ==
    /\ pc = "idle"
    /\ pc' = "done"
    /\ op' = "simulate_online_features"
    /\ entities' = EntityRows(ids)
    /\ features' = f
    /\ result' = simulate_online_features(EntityRows(ids), f)
    /\ UNCHANGED <<raw_data, total_activities, unique_products, purchase_counts,
                   error, calls, saved, ncalls>>

(***************************************************************************)
(* Specifications                                                          *)
(***************************************************************************)
EngineerStep ==
    \/ ValidateKeys
    \/ ValidateLengths
    \/ CalcTotal
    \/ CalcUnique
    \/ CalcPurchase
    \/ Build

\* the calls a caller makes, each with any argument of the model
CallEngineer == pc = "idle" /\ \E b \in Batches : Call(b)

CallTotal == pc = "idle" /\ \E b \in Batches : DirectTotal(b)

CallUnique == pc = "idle" /\ \E b \in Batches : DirectUnique(b)

CallPurchase == pc = "idle" /\ \E b \in Batches : DirectPurchase(b)

CallHistorical ==
    pc = "idle" /\ \E ids \in EntityIds, f \in FeatureArgs : SimHistorical(ids, f)

CallOnline ==
    pc = "idle" /\ \E ids \in EntityIds, f \in FeatureArgs : SimOnline(ids, f)

\* one call of any function, from the initial state
Next ==
    \/ CallEngineer
    \/ EngineerStep
    \/ CallTotal
    \/ CallUnique
    \/ CallPurchase
    \/ CallHistorical
    \/ CallOnline

Spec == Init /\ [][Next]_vars

\* the frame of the finished call is gone: nothing of it is left for the next call
FrameDropped ==
    /\ pc' = "idle"
    /\ raw_data' = EmptyDict
    /\ total_activities' = EmptyDict
    /\ unique_products' = EmptyDict
    /\ purchase_counts' = EmptyDict
    /\ result' = <<>>
    /\ error' = "none"
    /\ calls' = <<>>
    /\ ncalls' = ncalls + 1
    /\ UNCHANGED <<op, entities, features>>

\* the call has returned or raised; the caller keeps the batch and the outcome
Remember ==
    /\ pc = "done"
    /\ ncalls + 1 < MaxCalls
    /\ ~saved.set
    /\ saved' = [set |-> TRUE, batch |-> raw_data, error |-> error, rows |-> result]
    /\ FrameDropped

\* the call has returned or raised; the caller drops the outcome
Discard ==
    /\ pc = "done"
    /\ ncalls + 1 < MaxCalls
    /\ UNCHANGED saved
    /\ FrameDropped

CallEngineerAgain == pc = "idle" /\ \E b \in PureBatches : Call(b)

\* engineer_user_activity_features called again and again
NextPure ==
    \/ CallEngineerAgain
    \/ EngineerStep
    \/ Remember
    \/ Discard

SpecPure == Init /\ [][NextPure]_vars

(***************************************************************************)
(* Properties                                                              *)
(***************************************************************************)
Indices(raw) == 1..Len(raw["user_id"])

InputUsers(raw) == {raw["user_id"][i] : i \in Indices(raw)}

\* the records of user u in raw, and those of them with activity type t
RecordsOf(raw, u) == {i \in Indices(raw) : raw["user_id"][i] = u}

RecordsOfType(raw, u, t) == {i \in RecordsOf(raw, u) : raw["activity_type"][i] = t}

WellFormed(raw) ==
    /\ DOMAIN raw = KeyNames
    /\ \A k \in KeyNames : Len(raw[k]) = Len(raw["user_id"])

EngineerDone == pc = "done" /\ op = "engineer_user_activity_features"

EngineerReturned == EngineerDone /\ WellFormed(raw_data)

RowUsers == {result[i]["user_id"] : i \in 1..Len(result)}

\* C1: for a well-formed batch the call raises nothing and returns exactly one
\* row per distinct user_id of the batch: the user_ids of the rows are those of
\* the input, none twice; an empty batch gives no rows.
C1_OneRowPerUser ==
    EngineerReturned =>
        /\ error = "none"
        /\ RowUsers = InputUsers(raw_data)
        /\ Len(result) = Cardinality(InputUsers(raw_data))

C1_Witness ==
    /\ EngineerReturned
    /\ Len(raw_data["user_id"]) = 3
    /\ raw_data["activity_type"] = <<"view", "click", "view">>
    /\ Cardinality(InputUsers(raw_data)) = 2
    /\ Len(result) = 2

\* C2: the rows returned for a well-formed batch are in strictly ascending
\* order of user_id, whatever the order of the user_ids in the input.
C2_RowsAscending ==
    EngineerReturned =>
        \A i, j \in 1..Len(result) : i < j => result[i]["user_id"] < result[j]["user_id"]

C2_Witness ==
    /\ EngineerReturned
    /\ raw_data["user_id"] = <<2, 1, 2>>
    /\ Len(result) = 2
    /\ result[1]["user_id"] = 1

\* C3: unique_products_viewed of a user's row is the number of distinct
\* product_ids among that user's view records; a repeated product counts
\* once and products of non-view records do not count.
C3_UniqueProductsViewed ==
    EngineerReturned =>
        \A r \in 1..Len(result) :
            result[r]["unique_products_viewed"] =
                Cardinality({raw_data["product_id"][i] :
                                i \in RecordsOfType(raw_data, result[r]["user_id"], "view")})

C3_Witness ==
    /\ EngineerReturned
    /\ raw_data["user_id"] = <<1, 1, 1>>
    /\ raw_data["activity_type"] = <<"view", "view", "purchase">>
    /\ raw_data["product_id"] = <<"A", "A", "B">>
    /\ result[1]["unique_products_viewed"] = 1

\* C4: total_activities of a user's row is the number of records of that
\* user, whatever their activity type.
C4_TotalActivities ==
    EngineerReturned =>
        \A r \in 1..Len(result) :
            result[r]["total_activities"] =
                Cardinality(RecordsOf(raw_data, result[r]["user_id"]))

C4_Witness ==
    /\ EngineerReturned
    /\ raw_data["user_id"] = <<1, 2, 1>>
    /\ raw_data["activity_type"] = <<"view", "click", "purchase">>
    /\ result[1]["total_activities"] = 2
    /\ result[2]["total_activities"] = 1

\* C5: every user of the batch has a row whose purchase_count is the number of
\* that user's purchase records, 0 when there is none, and whose
\* unique_products_viewed is 0 when the user has no view record.
C5_PurchaseCountAndZeroDefault ==
    EngineerReturned =>
        \A u \in InputUsers(raw_data) :
            \E r \in 1..Len(result) :
                /\ result[r]["user_id"] = u
                /\ result[r]["purchase_count"] =
                        Cardinality(RecordsOfType(raw_data, u, "purchase"))
                /\ RecordsOfType(raw_data, u, "view") = {}
                        => result[r]["unique_products_viewed"] = 0

C5_Witness ==
    /\ EngineerReturned
    /\ raw_data["user_id"] = <<1, 2, 2>>
    /\ raw_data["activity_type"] = <<"click", "purchase", "purchase">>
    /\ result[1]["purchase_count"] = 0
    /\ result[1]["unique_products_viewed"] = 0
    /\ result[2]["purchase_count"] = 2

\* C6: a call with a batch that lacks a required key, or whose four columns
\* differ in length, ends in the ValueError, returns no rows, and has entered
\* none of the three helpers at any point of the call.
C6_ShapeErrorBeforeAggregation ==
    (op = "engineer_user_activity_features" /\ pc # "idle" /\ ~WellFormed(raw_data)) =>
        /\ calls = <<>>
        /\ result = <<>>
        /\ pc \in {"keys", "lengths", "done"}
        /\ pc = "done" => error # "none"

C6_Witness ==
    /\ EngineerDone
    /\ DOMAIN raw_data = KeyNames
    /\ Len(raw_data["user_id"]) = 2
    /\ Len(raw_data["product_id"]) = 1
    /\ error = "All data arrays must have the same length"
    /\ calls = <<>>

HelperNames == {"calculate_total_activities", "calculate_unique_products_viewed",
                "calculate_purchase_count"}

\* C7: each of the three helpers, called directly with columns of
\* inconsistent lengths, raises ValueError.
C7_HelpersRejectInconsistentLengths ==
    (pc = "done" /\ op \in HelperNames
        /\ DOMAIN raw_data = KeyNames /\ ~WellFormed(raw_data)) => error # "none"

\* C8: the retrieval functions return one row per input entity, in input
\* order, and every row has a column for every requested feature name.
C8_RetrievalFillsRequested ==
    (pc = "done" /\ op \in {"simulate_historical_features", "simulate_online_features"}) =>
        /\ Len(result) = Len(entities)
        /\ \A r \in 1..Len(result) :
              /\ result[r]["user_id"] = entities[r]["user_id"]
              /\ \A k \in 1..Len(EffectiveFeatures(features)) :
                    EffectiveFeatures(features)[k] \in DOMAIN result[r]

Reorderings(n) == {p \in [1..n -> 1..n] : \A i, j \in 1..n : p[i] = p[j] => i = j}

\* the records of raw rearranged by p, each record kept intact
Permute(raw, p) == [k \in DOMAIN raw |-> [i \in 1..Len(raw[k]) |-> raw[k][p[i]]]]

\* C9: the outcome of the call on a well-formed batch is the outcome of the
\* call on every permutation of its records.
C9_OrderIndependent ==
    EngineerReturned =>
        \A p \in Reorderings(Len(raw_data["user_id"])) :
            engineer_user_activity_features(Permute(raw_data, p))
                = [error |-> error, rows |-> result]

C9_Witness ==
    /\ EngineerReturned
    /\ raw_data["user_id"] = <<2, 1, 2>>
    /\ raw_data["activity_type"] = <<"view", "purchase", "click">>
    /\ Len(result) = 2

\* C10: a call, whether it returns or raises, leaves the batch as it was, and
\* a later call on a batch gives the outcome an earlier call on that batch
\* gave, whatever was called in between.
C10_Pure ==
    /\ []((EngineerDone /\ saved.set /\ saved.batch = raw_data) =>
            (error = saved.error /\ result = saved.rows))
    /\ [][(pc # "idle" /\ pc' # "idle") => raw_data' = raw_data]_vars

C10_Witness ==
    /\ EngineerDone
    /\ ncalls = 2
    /\ saved.set
    /\ saved.batch = raw_data
    /\ WellFormed(raw_data)
    /\ raw_data["user_id"] = <<2, 1>>
    /\ Len(result) = 2

=============================================================================
